---- MODULE Spec2Model ----
(***************************************************************************)
(* A model of the identifier-resolution and annotation-enrichment scripts  *)
(* of the repository:                                                      *)
(*   scripts/map_pdb_to_uniprot.py    parallel PDB -> UniProt resolver     *)
(*   scripts/fetch_disease_labels.py  sequential resolver + annotation     *)
(*   scripts/map_remaining_pdb.py     supplementary resolver               *)
(*   scripts/fetch_uniprot_unmap.py   annotation of the supplementary map  *)
(*   scripts/merge_pdb_to_uniprot.py  mapping x annotation fan-out         *)
(*   scripts/merge_anomalies_with_disease.py  left join onto the features  *)
(* The durable files are the state that survives a run; one script runs    *)
(* at a time.  An action is one step of its main thread; the stage "pool"  *)
(* also follows the worker threads of the executor, one HTTP exchange at   *)
(* a time.                                                                 *)
(***************************************************************************)
EXTENDS Integers, Sequences, FiniteSets, TLC

(***************************************************************************)
(* Bounds of the model.                                                    *)
(***************************************************************************)
\* longest protein_id column of the feature table
MaxRows == 3
\* runs of one script in a behaviour
MaxRuns == 2
\* map_pdb_to_uniprot.py:30 SAVE_EVERY = 100, scaled down
SAVE_EVERY == 2
\* map_pdb_to_uniprot.py:29 MAX_THREADS = 10, scaled down
MAX_THREADS == 2
\* most lines of unmapped_pdbs.txt naming one id when a supplementary run starts
MaxLog == 2
\* map_remaining_pdb.py:44 "every 50 entries", scaled down
REM_SAVE_EVERY == 2
\* fetch_uniprot_unmap.py:56 "every 20 requests", scaled down
UNMAP_SAVE_EVERY == 2

PdbIds == {1, 2, 3}
Accessions == {"P1", "P2"}
\* JSON null / Python None
Null == "null"
\* key not in the dict
Absent == "absent"
Values == Accessions \cup {Null, Absent}

(***************************************************************************)
(* The network.  One HTTP exchange ends in an accession, in a definitive   *)
(* answer without accession ("none": status 200 with nothing usable, or a  *)
(* non-200 status), or in an exception ("error": timeout, connection).     *)
(***************************************************************************)
Responses == Accessions \cup {"none", "error"}

\* range(1, 5): the polymer entities tried by the RCSB fallback
RcsbEntities == 1..4
\* a fetch_uniprot of three rounds
AttemptsThree == 1..3
\* range(2): the rounds of fetch_uniprot
Attempts == 1..2

\* map_pdb_to_uniprot.py fetch_uniprot_from_uniprot_api: the accession of a
\* 200 answer with text, None otherwise (exceptions are swallowed).
fetch_uniprot_from_uniprot_api(resp) ==
  IF resp \in Accessions THEN resp ELSE Null

\* a fallback that never finds a reference in an answer
RcsbEntityBlind(resp) == Null

\* map_pdb_to_uniprot.py lines 54-63, one entity of the fallback: the UniProt
\* reference of a 200 answer, nothing for another answer or an exception
RcsbEntity(resp) == IF resp \in Accessions THEN resp ELSE Null

\* map_pdb_to_uniprot.py fetch_uniprot_from_rcsb: the first entity, in the
\* order 1..4, whose answer carries a UniProt reference; an exception or a
\* non-200 answer moves on to the next entity.
RECURSIVE RcsbFrom(_, _)
RcsbFrom(resps, e) ==
  IF e > Len(resps) THEN Null
  ELSE IF RcsbEntity(resps[e]) # Null THEN RcsbEntity(resps[e])
  ELSE RcsbFrom(resps, e + 1)

fetch_uniprot_from_rcsb(resps) == RcsbFrom(resps, 1)

\* All the answers one round of fetch_uniprot may meet.
Rounds == [uniprot : Responses, rcsb : [RcsbEntities -> Responses]]

\* One round of the loop of fetch_uniprot (lines 70-75): the primary backend
\* first, the fallback only when the primary gave nothing.
FetchRound(rd) ==
  LET uid == fetch_uniprot_from_uniprot_api(rd.uniprot)
  IN  IF uid # Null THEN uid ELSE fetch_uniprot_from_rcsb(rd.rcsb)

\* Which backend produced the accession of a round ("none" when neither).
RoundBackend(rd) ==
  IF fetch_uniprot_from_uniprot_api(rd.uniprot) # Null THEN "primary"
  ELSE IF fetch_uniprot_from_rcsb(rd.rcsb) # Null THEN "secondary"
  ELSE "none"

\* How a round without accession ended: every exchange a definitive "none",
\* every exchange an exception, or a mix.
RoundKind(rd) ==
  LET all == {rd.uniprot} \cup {rd.rcsb[e] : e \in RcsbEntities}
  IN  IF FetchRound(rd) # Null THEN "found"
      ELSE IF all = {"none"} THEN "allNone"
      ELSE IF all = {"error"} THEN "allError"
      ELSE "mixed"

\* The network as one call of fetch_uniprot may meet it: a round per attempt.
AllNets == [Attempts -> Rounds]

\* map_pdb_to_uniprot.py fetch_uniprot (lines 67-77): up to two rounds, the
\* first accession wins, None when both rounds gave nothing.
RECURSIVE FetchFrom(_, _)
FetchFrom(net, a) ==
  IF a \notin Attempts THEN Null
  ELSE IF FetchRound(net[a]) # Null THEN FetchRound(net[a])
  ELSE FetchFrom(net, a + 1)

fetch_uniprot(net) == FetchFrom(net, 1)

\* The backend behind the accession fetch_uniprot returned.
FetchBackend(net) ==
  IF RoundBackend(net[1]) # "none" THEN RoundBackend(net[1])
  ELSE RoundBackend(net[2])

\* How a call that returned None ended over all its exchanges.
FetchKind(net) ==
  IF fetch_uniprot(net) # Null THEN "found"
  ELSE IF RoundKind(net[1]) = RoundKind(net[2]) THEN RoundKind(net[1])
  ELSE "mixed"

\* What the caller of fetch_uniprot, and the history kept here, can tell
\* about a network: what was returned, by which backend, how a None arose.
FetchSummary(net) ==
  [ret |-> fetch_uniprot(net), backend |-> FetchBackend(net),
   kind |-> FetchKind(net)]

\* One round per outcome of a round, and one network per outcome of a call:
\* networks with the same summary drive the scripts the same way.
RoundClasses ==
  LET outs == {<<FetchRound(rd), RoundBackend(rd), RoundKind(rd)>> : rd \in Rounds}
  IN  {CHOOSE rd \in Rounds :
         <<FetchRound(rd), RoundBackend(rd), RoundKind(rd)>> = o : o \in outs}

Nets ==
  LET cands == [Attempts -> RoundClasses]
      sums == {FetchSummary(net) : net \in cands}
  IN  {CHOOSE net \in cands : FetchSummary(net) = s : s \in sums}

(***************************************************************************)
(* State.                                                                  *)
(***************************************************************************)
VARIABLES
  stage,         \* which scripts of the pipeline this behaviour runs
  inputRows,     \* INPUT_FILE: the protein_id column, row by row
  mapFile,       \* pdb_to_uniprot.json: its last complete content
  mapFileState,  \* "missing", "ok", or "torn" (cut off inside a write)
  unmappedLog,   \* unmapped_pdbs.txt: how many of its lines name each id
  nullResults,   \* history: how many results of each id the loop of map_pdb_to_uniprot took as null
  script,        \* the script that is running, "none" between runs
  runs,          \* runs started so far
  mem,           \* map_pdb_to_uniprot: the dict pdb_to_uniprot
  futures,       \* map_pdb_to_uniprot: the ids submitted to the executor
  completed,     \* map_pdb_to_uniprot: the ids as_completed has yielded
  loaded,        \* history: the dict as loaded at the start of the run
  cause,         \* history: how the last lookup of each id ended
  flushed,       \* history: ids of this run whose outcome a save has written
  prev,          \* history: how the previous run ended and what it left
  cacheFile,     \* uniprot_cache.json: its last complete content
  cacheFileState,\* "missing", "ok" or "torn"
  partialFile,   \* fetched_records.csv: its rows (none: no file)
  annotFile,     \* uniprot_disease_labels_final.csv: its rows
  annotFileState,\* "missing" or "ok"
  supplFile,     \* pdb_to_uniprot_supplement.json: its last complete content
  supplFileState,\* "missing", "ok" or "torn"
  supp,          \* map_remaining_pdb: the dict results
  to_process,    \* map_remaining_pdb: how often each id is left in to_process
  remReqs,       \* history: how many lookups this run made for each id
  cache,         \* fetch_disease_labels: the dict cache
  results,       \* fetch_disease_labels: the list results
  done_pdbs,     \* fetch_disease_labels: the set done_pdbs
  visited,       \* fetch_disease_labels: the ids the for loop has been through
  records,       \* fetch_uniprot_unmap: the list records
  fetched_ids,   \* fetch_uniprot_unmap: the set fetched_ids
  todo,          \* fetch_uniprot_unmap: the accessions the for loop has left
  resolveReqs,   \* history: ids this run sent a resolution request for
  annotReqs,     \* history: <<id, accession>> this run sent an annotation request for
  notFound,      \* history: the last run in which the annotation of an accession was answered "not found"
  diseaseFile,   \* pdb_uniprot_disease_final.csv: its rows
  diseaseFileState, \* "missing" or "ok"
  merged,        \* protein_anomalies_with_diseases.csv: its rows
  mergedState,   \* "missing" or "ok"
  summary,       \* the merge summary merge_anomalies_with_disease.py printed
  pool,          \* ThreadPoolExecutor: where each worker thread is in fetch_uniprot
  queue,         \* ThreadPoolExecutor: the submitted ids no worker has taken yet
  outcome,       \* the futures: what fetch_uniprot returned, "pending" before
  producer,      \* history: the backend whose answer fetch_uniprot returned
  fallback       \* history: the accession RCSB answered after UniProt had failed

mapVars == <<mapFile, mapFileState, unmappedLog, nullResults, mem, futures, completed, flushed>>

annotVars == <<cacheFile, cacheFileState, partialFile, annotFile, annotFileState,
               cache, results, done_pdbs, visited,
               records, fetched_ids, todo, resolveReqs, annotReqs, notFound>>

supplVars == <<supplFile, supplFileState>>

remVars == <<supp, to_process, remReqs>>

mergeVars == <<diseaseFile, diseaseFileState, merged, mergedState, summary>>

poolVars == <<pool, queue, outcome, producer, fallback>>

vars == <<stage, inputRows, script, runs, loaded, cause, prev, mapVars, annotVars,
          supplVars, remVars, mergeVars, poolVars>>

\* the variables the main thread of the parallel resolver never touches
notMapVars == <<annotVars, supplVars, remVars, mergeVars, poolVars>>

\* an executor that starts a thread for every submitted task
WorkersOnePerTask == 1..(MAX_THREADS + 1)

\* line 106: ThreadPoolExecutor(max_workers=MAX_THREADS)
Workers == 1..MAX_THREADS

EmptyMap == [p \in PdbIds |-> Absent]

Zero == [p \in PdbIds |-> 0]

RowSeqs == UNION {[1..n -> PdbIds] : n \in 1..MaxRows}

\* The resolvers read the column through set(): for them the sorted columns
\* stand for all (every set of ids, with and without repeated rows).
SortedRows == {s \in RowSeqs : \A i \in 1..Len(s), j \in 1..Len(s) : i < j => s[i] <= s[j]}

\* sorted(set(df["protein_id"].dropna().astype(str))): the distinct ids.
\* The resolvers are followed on feature tables whose protein_id column reads
\* as strings (some id of the table is no number); the rows here are the ids
\* of such a table that the behaviour is about.
pdb_ids == {inputRows[k] : k \in 1..Len(inputRows)}

\* no previous run; Ended(who, how) is a run of script who that ended how
NoPrev == [end |-> "none", who |-> "none", todo |-> {}, nulls |-> {}, unsaved |-> {}]

Ended(who, how) == [NoPrev EXCEPT !.end = how, !.who = who]

\* a worker thread with no task
IdleWorker == [task |-> 0, attempt |-> 0, backend |-> "none", entity |-> 0, wait |-> FALSE, failed |-> FALSE, got |-> Null,
               sent |-> [primary |-> 0, secondary |-> 0]]

\* No script is running and none has run.
Idle ==
  /\ script = "none"
  /\ runs = 0
  /\ mem = EmptyMap
  /\ futures = {}
  /\ completed = {}
  /\ nullResults = Zero
  /\ loaded = EmptyMap
  /\ cause = [p \in PdbIds |-> "never"]
  /\ flushed = {}
  /\ prev = NoPrev
  /\ cache = EmptyMap
  /\ results = <<>>
  /\ done_pdbs = {}
  /\ visited = {}
  /\ records = <<>>
  /\ fetched_ids = {}
  /\ todo = {}
  /\ resolveReqs = {}
  /\ annotReqs = {}
  /\ notFound = [a \in Accessions |-> 0]
  /\ supp = EmptyMap
  /\ to_process = Zero
  /\ remReqs = Zero
  /\ pool = [w \in Workers |-> IdleWorker]
  /\ queue = <<>>
  /\ outcome = [p \in PdbIds |-> "pending"]
  /\ producer = [p \in PdbIds |-> "none"]
  /\ fallback = [p \in PdbIds |-> "no"]

\* no summary printed
NoSummary == [total |-> 0, with_disease |-> 0, coverage |-> 0]

\* The merge scripts have not run.
NoMerge ==
  /\ diseaseFile = <<>>
  /\ diseaseFileState = "missing"
  /\ merged = <<>>
  /\ mergedState = "missing"
  /\ summary = NoSummary

\* No resolver has written a checkpoint or an output.
NoFiles ==
  /\ mapFile = EmptyMap
  /\ mapFileState = "missing"
  /\ cacheFile = EmptyMap
  /\ cacheFileState = "missing"
  /\ partialFile = <<>>
  /\ annotFile = <<>>
  /\ annotFileState = "missing"

\* A fresh checkout: the feature table exists, no checkpoint does.
Fresh == Idle /\ NoFiles /\ NoMerge

NoSuppl ==
  /\ supplFile = EmptyMap
  /\ supplFileState = "missing"

InitMap ==
  /\ stage = "map"
  /\ inputRows \in SortedRows
  /\ Fresh
  /\ NoSuppl
  /\ unmappedLog = Zero

(***************************************************************************)
(* map_pdb_to_uniprot.py, the main thread.                                 *)
(***************************************************************************)
\* a resolver that does not resume: it starts from an empty dict
MapLoadFresh == EmptyMap

\* lines 90-95: json.load of an existing file, {} when there is none
MapLoad == IF mapFileState = "ok" THEN mapFile ELSE EmptyMap

\* the filter of line 98 without its null test: only missing ids are pending
unmapped_ids_missing_only(d) == {p \in pdb_ids : d[p] = Absent}

\* the filter of line 98 ignoring the dict: every id of the input is pending
unmapped_ids_all(d) == pdb_ids

\* the filter of line 98 with a retry limit: a null id is pending only while
\* the log shows fewer failures than the limit
unmapped_ids_capped(d) ==
  {p \in pdb_ids : d[p] = Absent \/ (d[p] = Null /\ unmappedLog[p] < MaxRuns - 1)}

\* line 98: the ids of the input that are missing from the dict or null in it
unmapped_ids(d) == {p \in pdb_ids : d[p] = Absent \/ d[p] = Null}

\* a save that writes only the entries of the ids submitted in this run
DumpSubmitted(d) == [q \in PdbIds |-> IF q \in futures THEN d[q] ELSE Absent]

\* lines 124 and 127, json.dump(pdb_to_uniprot, ...): the file gets every
\* entry of the dict (an accession or null reads back as written)
Dump(d) == d

\* a log opened for writing: the new line is all the file holds
LogOverwrite(log, p) == [q \in PdbIds |-> IF q = p THEN 1 ELSE 0]

\* lines 117-118, open(UNMAPPED_LOG, "a") and write: one more line for p
LogAppend(log, p) == [log EXCEPT ![p] = @ + 1]

\* line 123: the autosave is due after the (i+1)-th result
SaveDue(n) == n % SAVE_EVERY = 0

\* the memory of a process is gone when it ends
Forget ==
  /\ mem' = EmptyMap
  /\ futures' = {}
  /\ completed' = {}
  /\ loaded' = EmptyMap
  /\ flushed' = {}

\* what an interrupted run leaves behind, given its dict d and the ids done
Interrupted(d, done, saved, how) ==
  [end |-> how,
   who |-> "map",
   todo |-> futures \ done,
   nulls |-> {q \in done : d[q] = Null},
   unsaved |-> {q \in done \ saved : d[q] # Null}]

\* lines 84-108 with a loadable (or no) checkpoint: load, pick the unmapped
\* ids, exit() when there are none, else submit them all to the executor
MapStart ==
  /\ stage = "map"
  /\ script = "none"
  /\ runs < MaxRuns
  /\ mapFileState # "torn"
  /\ runs' = runs + 1
  /\ LET d == MapLoad
     IN  IF unmapped_ids(d) = {}
         THEN /\ Forget
              /\ prev' = Ended("map", "done")
              /\ UNCHANGED script
         ELSE /\ mem' = d
              /\ loaded' = d
              /\ futures' = unmapped_ids(d)
              /\ completed' = {}
              /\ flushed' = {}
              /\ script' = "map"
              /\ UNCHANGED prev
  /\ UNCHANGED notMapVars
  /\ UNCHANGED <<stage, inputRows, mapFile, mapFileState, unmappedLog, nullResults, cause>>

\* lines 90-92 on a file cut off inside a write: json.load raises and the
\* run ends before it has submitted anything
MapStartAbort ==
  /\ stage = "map"
  /\ script = "none"
  /\ runs < MaxRuns
  /\ mapFileState = "torn"
  /\ runs' = runs + 1
  /\ Forget
  /\ prev' = Ended("map", "aborted")
  /\ UNCHANGED notMapVars
  /\ UNCHANGED <<stage, inputRows, mapFile, mapFileState, unmappedLog, nullResults, script, cause>>

\* lines 110-124, one iteration of the as_completed loop: the future of p
\* yields what fetch_uniprot returned over the network net; the dict gets it,
\* a null goes to the unmapped log, and every SAVE_EVERY-th result saves.
MapComplete(p, net) ==
  /\ script = "map"
  /\ p \in futures \ completed
  /\ LET uniprot_id == fetch_uniprot(net)
         d == [mem EXCEPT ![p] = uniprot_id]
     IN  /\ mem' = d
         /\ completed' = completed \cup {p}
         /\ cause' = [cause EXCEPT ![p] = FetchKind(net)]
         /\ unmappedLog' = IF uniprot_id = Null
                           THEN LogAppend(unmappedLog, p)
                           ELSE unmappedLog
         /\ nullResults' = IF uniprot_id = Null
                           THEN [nullResults EXCEPT ![p] = @ + 1]
                           ELSE nullResults
         /\ IF SaveDue(Cardinality(completed) + 1)
            THEN /\ mapFile' = Dump(d)
                 /\ mapFileState' = "ok"
                 /\ flushed' = completed \cup {p}
            ELSE UNCHANGED <<mapFile, mapFileState, flushed>>
  /\ UNCHANGED notMapVars
  /\ UNCHANGED <<stage, inputRows, script, runs, futures, loaded, prev>>

\* the same iteration when the process dies inside the autosave of line 124:
\* open(OUTPUT_JSON, "w") has truncated the file and json.dump is not through
MapCompleteTorn(p, net) ==
  /\ script = "map"
  /\ p \in futures \ completed
  /\ SaveDue(Cardinality(completed) + 1)
  /\ LET uniprot_id == fetch_uniprot(net)
         d == [mem EXCEPT ![p] = uniprot_id]
     IN  /\ cause' = [cause EXCEPT ![p] = FetchKind(net)]
         /\ unmappedLog' = IF uniprot_id = Null
                           THEN LogAppend(unmappedLog, p)
                           ELSE unmappedLog
         /\ nullResults' = IF uniprot_id = Null
                           THEN [nullResults EXCEPT ![p] = @ + 1]
                           ELSE nullResults
         /\ prev' = Interrupted(d, completed \cup {p}, {}, "torn")
  /\ mapFile' = EmptyMap
  /\ mapFileState' = "torn"
  /\ script' = "none"
  /\ Forget
  /\ UNCHANGED notMapVars
  /\ UNCHANGED <<stage, inputRows, runs>>

\* line 127, the final save, and the end of the run
MapFinalSave ==
  /\ script = "map"
  /\ completed = futures
  /\ mapFile' = Dump(mem)
  /\ mapFileState' = "ok"
  /\ script' = "none"
  /\ prev' = Ended("map", "done")
  /\ Forget
  /\ UNCHANGED notMapVars
  /\ UNCHANGED <<stage, inputRows, unmappedLog, nullResults, runs, cause>>

\* the process dies inside the final save
MapFinalSaveTorn ==
  /\ script = "map"
  /\ completed = futures
  /\ mapFile' = EmptyMap
  /\ mapFileState' = "torn"
  /\ script' = "none"
  /\ prev' = Interrupted(mem, completed, {}, "torn")
  /\ Forget
  /\ UNCHANGED notMapVars
  /\ UNCHANGED <<stage, inputRows, unmappedLog, nullResults, runs, cause>>

\* the run is interrupted or killed between two iterations: nothing in the
\* script saves on the way out, the file keeps what the last save wrote
MapCrash ==
  /\ script = "map"
  /\ prev' = Interrupted(mem, completed, flushed, "crash")
  /\ script' = "none"
  /\ Forget
  /\ UNCHANGED notMapVars
  /\ UNCHANGED <<stage, inputRows, mapFile, mapFileState, unmappedLog, nullResults, runs, cause>>

NextMap ==
  \/ MapStart
  \/ MapStartAbort
  \/ \E p \in PdbIds, net \in Nets : MapComplete(p, net)
  \/ \E p \in PdbIds, net \in Nets : MapCompleteTorn(p, net)
  \/ MapFinalSave
  \/ MapFinalSaveTorn
  \/ MapCrash

SpecMap == InitMap /\ [][NextMap]_vars

\* map_pdb_to_uniprot.py started on a map that earlier runs have left, on
\* this feature table or on another: any entries, for ids of the table and
\* for others, a null entry with its line in the unmapped log
InitKept ==
  /\ stage = "map"
  /\ inputRows \in SortedRows
  /\ Idle
  /\ NoMerge
  /\ NoSuppl
  /\ mapFile \in [PdbIds -> Values]
  /\ mapFileState = "ok"
  /\ unmappedLog = [p \in PdbIds |-> IF mapFile[p] = Null THEN 1 ELSE 0]
  /\ cacheFile = EmptyMap
  /\ cacheFileState = "missing"
  /\ partialFile = <<>>
  /\ annotFile = <<>>
  /\ annotFileState = "missing"

SpecKept == InitKept /\ [][NextMap]_vars

(***************************************************************************)
(* fetch_disease_labels.py and fetch_uniprot_unmap.py: the two scripts     *)
(* that write uniprot_disease_labels_final.csv.                            *)
(***************************************************************************)
\* a row without pdb_id column (fetch_uniprot_unmap.py lines 48-53)
NoPdb == 0

\* what the annotation endpoint may answer: a 200 with a parsable record,
\* another status, or an exception (timeout, unparsable payload)
AnnotResponses == {"ok", "notfound", "error"}

Row(uid, pdb) == [uniprot_id |-> uid, pdb_id |-> pdb]

\* Python None where a record is expected
NoInfo == Row(Null, NoPdb)

Range(f) == {f[k] : k \in DOMAIN f}

\* the ids whose spelling reads as a number: id 1 stands for an entry such
\* as "1E10"; ids 2 and 3 are spelled with letters that make no number
NumericLooking == {1}

\* the float a numeric-looking id is read as, and, written out again, its
\* decimal spelling ("10000000000.0"), which is the spelling of no id
AsNumber(p) == p + 10

Numbers == {AsNumber(p) : p \in NumericLooking}

\* pd.read_csv on the protein_id column of the feature table
\* (merge_anomalies_with_disease.py line 27), by the same rule as read_csv
read_csv_ids(ids) ==
  IF \A k \in DOMAIN ids : ids[k] \in NumericLooking
  THEN [k \in DOMAIN ids |-> AsNumber(ids[k])]
  ELSE ids

\* pd.read_csv on a pdb_id column (fetch_disease_labels.py line 128,
\* fetch_uniprot_unmap.py line 22, merge_anomalies_with_disease.py line 30):
\* a column whose every value reads as a number, or is empty, comes back as
\* floats; a column with one value that does not comes back as written
read_csv(rows) ==
  IF \A k \in DOMAIN rows : rows[k].pdb_id \in NumericLooking \cup Numbers \cup {NoPdb}
  THEN [k \in DOMAIN rows |->
          [rows[k] EXCEPT !.pdb_id = IF @ \in NumericLooking THEN AsNumber(@) ELSE @]]
  ELSE rows

\* fetch_disease_labels.py pdb_to_uniprot (lines 37-68): the accession of the
\* GraphQL answer, None for any other answer and for an exception
pdb_to_uniprot(resp) == IF resp \in Accessions THEN resp ELSE Null

\* the DISEASE comments of the UniProt entry of an accession, as a 200 answer
\* carries them: the entry of P2 has none
Comments(uid) == IF uid = "P2" THEN <<>> ELSE <<"DI">>

\* fetch_disease_labels.py lines 89-102: the diseases column of the record
\* of accession uid, json.dumps of one item per DISEASE comment
Diseases(uid) == [k \in DOMAIN Comments(uid) |-> [disease_id |-> Comments(uid)[k]]]

\* an annotation fetch that returns a placeholder record for any answer
fetch_uniprot_disease_placeholder(uniprot_id, aresp) == Row(uniprot_id, NoPdb)

\* fetch_disease_labels.py fetch_uniprot_disease (lines 71-106): the record
\* of a 200 answer, None for another status and for an exception
fetch_uniprot_disease(uniprot_id, aresp) ==
  IF aresp = "ok" THEN Row(uniprot_id, NoPdb) ELSE NoInfo

\* the variables the annotation scripts never touch
notAnnotVars == <<mapVars, remVars, mergeVars, poolVars>>

AnnotForget ==
  /\ cache' = EmptyMap
  /\ results' = <<>>
  /\ done_pdbs' = {}
  /\ visited' = {}
  /\ records' = <<>>
  /\ fetched_ids' = {}
  /\ todo' = {}
  /\ loaded' = EmptyMap
  /\ resolveReqs' = {}
  /\ annotReqs' = {}

\* fetch_disease_labels.py lines 114-134: load the cache and the partial
\* results of earlier runs
LabelsStart ==
  /\ stage = "annot"
  /\ script = "none"
  /\ runs < MaxRuns
  /\ cacheFileState # "torn"
  /\ runs' = runs + 1
  /\ script' = "labels"
  /\ cache' = IF cacheFileState = "ok" THEN cacheFile ELSE EmptyMap
  /\ loaded' = cache'
  /\ results' = read_csv(partialFile)
  /\ done_pdbs' = {r.pdb_id : r \in Range(results')}
  /\ visited' = {}
  /\ resolveReqs' = {}
  /\ annotReqs' = {}
  /\ UNCHANGED <<records, fetched_ids, todo>>
  /\ UNCHANGED <<cacheFile, cacheFileState, partialFile, annotFile, annotFileState,
                 supplFile, supplFileState>>
  /\ UNCHANGED <<stage, inputRows, cause, prev>>
  /\ UNCHANGED notFound
  /\ UNCHANGED notAnnotVars

\* lines 120-122 on a cache cut off inside a write: json.load raises
LabelsStartAbort ==
  /\ stage = "annot"
  /\ script = "none"
  /\ runs < MaxRuns
  /\ cacheFileState = "torn"
  /\ runs' = runs + 1
  /\ prev' = Ended("labels", "aborted")
  /\ resolveReqs' = {}
  /\ annotReqs' = {}
  /\ UNCHANGED <<cache, results, done_pdbs, visited, records, fetched_ids, todo>>
  /\ UNCHANGED <<cacheFile, cacheFileState, partialFile, annotFile, annotFileState,
                 supplFile, supplFileState>>
  /\ UNCHANGED <<stage, inputRows, script, loaded, cause>>
  /\ UNCHANGED notFound
  /\ UNCHANGED notAnnotVars

\* the id the for loop of line 136 takes next: pdb_ids is sorted
NextPdb == CHOOSE p \in pdb_ids \ visited : \A q \in pdb_ids \ visited : p <= q

\* a cache in which only an accession counts as an entry
in_cache_resolved(c, p) == c[p] \in Accessions

\* fetch_disease_labels.py line 141, "pdb_id in cache": the dict has the key,
\* whatever its value
in_cache(c, p) == c[p] # Absent

\* the resolution outcome the history keeps for one GraphQL exchange
LabelsKind(resp) ==
  IF resp \in Accessions THEN "found"
  ELSE IF resp = "none" THEN "allNone" ELSE "allError"

\* lines 136-164, one iteration of the loop: skip an id with a partial
\* result, resolve it through the cache (a miss asks RCSB and rewrites the
\* cache file), fetch its annotation, append and rewrite the partial file
LabelsStep(resp, aresp) ==
  /\ script = "labels"
  /\ visited # pdb_ids
  /\ LET pdb_id == NextPdb
         hit == in_cache(cache, pdb_id)
         uni_id == IF hit THEN cache[pdb_id] ELSE pdb_to_uniprot(resp)
         disease_info == fetch_uniprot_disease(uni_id, aresp)
     IN  /\ visited' = visited \cup {pdb_id}
         /\ IF pdb_id \in done_pdbs
            THEN UNCHANGED <<cache, cacheFile, cacheFileState, resolveReqs, cause,
                             annotReqs, notFound, results, partialFile>>
            ELSE /\ IF hit
                    THEN UNCHANGED <<cache, cacheFile, cacheFileState, resolveReqs, cause>>
                    ELSE /\ cache' = [cache EXCEPT ![pdb_id] = uni_id]
                         /\ cacheFile' = cache'
                         /\ cacheFileState' = "ok"
                         /\ resolveReqs' = resolveReqs \cup {pdb_id}
                         /\ cause' = [cause EXCEPT ![pdb_id] = LabelsKind(resp)]
                 /\ IF uni_id = Null
                    THEN UNCHANGED <<annotReqs, notFound, results, partialFile>>
                    ELSE /\ annotReqs' = annotReqs \cup {<<pdb_id, uni_id>>}
                         /\ notFound' = IF aresp = "notfound"
                                        THEN [notFound EXCEPT ![uni_id] = runs]
                                        ELSE notFound
                         /\ IF disease_info = NoInfo
                            THEN UNCHANGED <<results, partialFile>>
                            ELSE /\ results' = Append(results, Row(uni_id, pdb_id))
                                 /\ partialFile' = results'
  /\ UNCHANGED <<done_pdbs, records, fetched_ids, todo>>
  /\ UNCHANGED <<annotFile, annotFileState, supplFile, supplFileState>>
  /\ UNCHANGED <<stage, inputRows, script, runs, loaded, prev>>
  /\ UNCHANGED notAnnotVars

\* the iteration of a cache miss when the process dies inside the write of
\* lines 146-147: the cache file is left cut off
LabelsStepTorn ==
  /\ script = "labels"
  /\ visited # pdb_ids
  /\ NextPdb \notin done_pdbs
  /\ ~in_cache(cache, NextPdb)
  /\ cacheFile' = EmptyMap
  /\ cacheFileState' = "torn"
  /\ script' = "none"
  /\ prev' = Ended("labels", "torn")
  /\ AnnotForget
  /\ UNCHANGED <<partialFile, annotFile, annotFileState, supplFile, supplFileState>>
  /\ UNCHANGED <<stage, inputRows, runs, cause>>
  /\ UNCHANGED notFound
  /\ UNCHANGED notAnnotVars

\* line 167: the final output is the list results, written over whatever
\* uniprot_disease_labels_final.csv held
LabelsFinish ==
  /\ script = "labels"
  /\ visited = pdb_ids
  /\ annotFile' = results
  /\ annotFileState' = "ok"
  /\ script' = "none"
  /\ prev' = Ended("labels", "done")
  /\ AnnotForget
  /\ UNCHANGED <<cacheFile, cacheFileState, partialFile, supplFile, supplFileState>>
  /\ UNCHANGED <<stage, inputRows, runs, cause>>
  /\ UNCHANGED notFound
  /\ UNCHANGED notAnnotVars

\* the run is interrupted or killed between two iterations
LabelsCrash ==
  /\ script = "labels"
  /\ script' = "none"
  /\ prev' = Ended("labels", "crash")
  /\ AnnotForget
  /\ UNCHANGED <<cacheFile, cacheFileState, partialFile, annotFile, annotFileState,
                 supplFile, supplFileState>>
  /\ UNCHANGED <<stage, inputRows, runs, cause>>
  /\ UNCHANGED notFound
  /\ UNCHANGED notAnnotVars

\* fetch_uniprot_unmap.py line 16: the distinct non-null values of the map
uniprot_ids == {supplFile[p] : p \in PdbIds} \cap Accessions

\* fetch_uniprot_unmap.py lines 12-24: read the supplementary map, load the
\* records uniprot_disease_labels_final.csv already holds
UnmapStart ==
  /\ stage = "annot"
  /\ script = "none"
  /\ runs < MaxRuns
  /\ supplFileState = "ok"
  /\ runs' = runs + 1
  /\ script' = "unmap"
  /\ records' = IF annotFileState = "ok" THEN read_csv(annotFile) ELSE <<>>
  /\ fetched_ids' = {r.uniprot_id : r \in Range(records')}
  /\ todo' = uniprot_ids
  /\ resolveReqs' = {}
  /\ annotReqs' = {}
  /\ UNCHANGED <<cache, results, done_pdbs, visited>>
  /\ UNCHANGED <<cacheFile, cacheFileState, partialFile, annotFile, annotFileState,
                 supplFile, supplFileState>>
  /\ UNCHANGED <<stage, inputRows, loaded, cause, prev>>
  /\ UNCHANGED notFound
  /\ UNCHANGED notAnnotVars

\* an annotation loop that skips nothing
never_fetched(uid) == FALSE

\* fetch_uniprot_unmap.py line 27: the accession has a record in the file
already_fetched(uid) == uid \in fetched_ids

\* lines 26-64, one iteration of the loop (a set is walked in no fixed
\* order): an accession not yet in the file is requested, a 200 answer is
\* appended, and the file is rewritten when len(records) % 20 == 0
UnmapStep(uid, aresp) ==
  /\ script = "unmap"
  /\ uid \in todo
  /\ todo' = todo \ {uid}
  /\ IF already_fetched(uid)
     THEN UNCHANGED <<annotReqs, notFound, records, annotFile, annotFileState>>
     ELSE /\ annotReqs' = annotReqs \cup {<<NoPdb, uid>>}
          /\ notFound' = IF aresp = "notfound"
                         THEN [notFound EXCEPT ![uid] = runs]
                         ELSE notFound
          /\ IF aresp = "ok"
             THEN /\ records' = Append(records, Row(uid, NoPdb))
                  /\ IF Len(records') % UNMAP_SAVE_EVERY = 0
                     THEN annotFile' = records' /\ annotFileState' = "ok"
                     ELSE UNCHANGED <<annotFile, annotFileState>>
             ELSE UNCHANGED <<records, annotFile, annotFileState>>
  /\ UNCHANGED <<cache, results, done_pdbs, visited, fetched_ids, resolveReqs>>
  /\ UNCHANGED <<cacheFile, cacheFileState, partialFile, supplFile, supplFileState>>
  /\ UNCHANGED <<stage, inputRows, script, runs, loaded, cause, prev>>
  /\ UNCHANGED notAnnotVars

\* line 67: the final save of records
UnmapFinish ==
  /\ script = "unmap"
  /\ todo = {}
  /\ annotFile' = records
  /\ annotFileState' = "ok"
  /\ script' = "none"
  /\ prev' = Ended("unmap", "done")
  /\ AnnotForget
  /\ UNCHANGED <<cacheFile, cacheFileState, partialFile, supplFile, supplFileState>>
  /\ UNCHANGED <<stage, inputRows, runs, cause>>
  /\ UNCHANGED notFound
  /\ UNCHANGED notAnnotVars

\* the run is interrupted or killed between two iterations
UnmapCrash ==
  /\ script = "unmap"
  /\ script' = "none"
  /\ prev' = Ended("unmap", "crash")
  /\ AnnotForget
  /\ UNCHANGED <<cacheFile, cacheFileState, partialFile, annotFile, annotFileState,
                 supplFile, supplFileState>>
  /\ UNCHANGED <<stage, inputRows, runs, cause>>
  /\ UNCHANGED notFound
  /\ UNCHANGED notAnnotVars

\* the supplementary maps an annotation run starts from.  map_remaining_pdb.py
\* stores accessions only, never a null, and fetch_uniprot_unmap.py reads
\* only the set of values: one map per set of values, and one with a
\* repeated value, stand for all.
SupplMaps ==
  {m \in [PdbIds -> Accessions \cup {Absent}] :
     /\ m[3] = Absent
     /\ m[2] # Absent => m[1] = "P1"}

InitAnnot ==
  /\ stage = "annot"
  /\ inputRows \in SortedRows
  /\ Fresh
  /\ supplFile \in SupplMaps
  /\ supplFileState = "ok"
  /\ unmappedLog = Zero

NextAnnot ==
  \/ LabelsStart
  \/ LabelsStartAbort
  \/ \E resp \in Responses, aresp \in AnnotResponses : LabelsStep(resp, aresp)
  \/ LabelsStepTorn
  \/ LabelsFinish
  \/ LabelsCrash
  \/ UnmapStart
  \/ \E uid \in Accessions, aresp \in AnnotResponses : UnmapStep(uid, aresp)
  \/ UnmapFinish
  \/ UnmapCrash

SpecAnnot == InitAnnot /\ [][NextAnnot]_vars

(***************************************************************************)
(* map_remaining_pdb.py: the supplementary resolver of the unmapped log.   *)
(***************************************************************************)
\* the variables the supplementary resolver never touches
notRemVars == <<mapVars, annotVars, mergeVars, poolVars>>

\* the keys of a dict
Keys(d) == {p \in PdbIds : d[p] # Absent}

\* line 44: the save is due when len(results) is a multiple of 50
RemSaveDue(d) == Cardinality(Keys(d)) % REM_SAVE_EVERY = 0

\* a supplementary resolver that looks every line of the log up again
ToProcessAll(d) == unmappedLog

\* line 17: the lines of the log whose id is not a key of the dict
ToProcess(d) == [p \in PdbIds |-> IF d[p] = Absent THEN unmappedLog[p] ELSE 0]

RemForget ==
  /\ supp' = EmptyMap
  /\ to_process' = Zero
  /\ remReqs' = Zero
  /\ loaded' = EmptyMap

\* lines 8-19: load the supplementary map, read the log line by line (a
\* repeated line stays repeated), keep the ids that are not in the map
RemStart ==
  /\ stage = "remaining"
  /\ script = "none"
  /\ runs < MaxRuns
  /\ supplFileState # "torn"
  /\ runs' = runs + 1
  /\ script' = "remaining"
  /\ supp' = IF supplFileState = "ok" THEN supplFile ELSE EmptyMap
  /\ loaded' = supp'
  /\ to_process' = ToProcess(supp')
  /\ remReqs' = Zero
  /\ UNCHANGED <<stage, inputRows, cause, prev>>
  /\ UNCHANGED supplVars
  /\ UNCHANGED notRemVars

\* lines 8-10 on a map cut off inside a write: json.load raises
RemStartAbort ==
  /\ stage = "remaining"
  /\ script = "none"
  /\ runs < MaxRuns
  /\ supplFileState = "torn"
  /\ runs' = runs + 1
  /\ prev' = Ended("remaining", "aborted")
  /\ UNCHANGED <<stage, inputRows, script, loaded, cause>>
  /\ UNCHANGED supplVars
  /\ UNCHANGED remVars
  /\ UNCHANGED notRemVars

\* lines 21-46, one iteration of the loop over to_process (taken here in any
\* order): the RCSB lookup of one line of the log; an accession is stored, no
\* accession or an exception stores nothing; then the periodic save
RemStep(p, resp) ==
  /\ script = "remaining"
  /\ to_process[p] > 0
  /\ to_process' = [to_process EXCEPT ![p] = @ - 1]
  /\ remReqs' = [remReqs EXCEPT ![p] = @ + 1]
  /\ supp' = IF resp \in Accessions THEN [supp EXCEPT ![p] = resp] ELSE supp
  /\ IF RemSaveDue(supp')
     THEN supplFile' = supp' /\ supplFileState' = "ok"
     ELSE UNCHANGED supplVars
  /\ UNCHANGED <<stage, inputRows, script, runs, loaded, cause, prev>>
  /\ UNCHANGED notRemVars

\* the same iteration when the process dies inside the save of lines 45-46
RemStepTorn(p, resp) ==
  /\ script = "remaining"
  /\ to_process[p] > 0
  /\ RemSaveDue(IF resp \in Accessions THEN [supp EXCEPT ![p] = resp] ELSE supp)
  /\ supplFile' = EmptyMap
  /\ supplFileState' = "torn"
  /\ script' = "none"
  /\ prev' = Ended("remaining", "torn")
  /\ RemForget
  /\ UNCHANGED <<stage, inputRows, runs, cause>>
  /\ UNCHANGED notRemVars

\* lines 49-50: the final save
RemFinish ==
  /\ script = "remaining"
  /\ to_process = Zero
  /\ supplFile' = supp
  /\ supplFileState' = "ok"
  /\ script' = "none"
  /\ prev' = Ended("remaining", "done")
  /\ RemForget
  /\ UNCHANGED <<stage, inputRows, runs, cause>>
  /\ UNCHANGED notRemVars

\* the run is interrupted or killed between two iterations
RemCrash ==
  /\ script = "remaining"
  /\ script' = "none"
  /\ prev' = Ended("remaining", "crash")
  /\ RemForget
  /\ UNCHANGED <<stage, inputRows, runs, cause>>
  /\ UNCHANGED supplVars
  /\ UNCHANGED notRemVars

\* map_remaining_pdb.py does not read the feature table; the log it reads is
\* what runs of map_pdb_to_uniprot.py have appended: any number of lines per id
InitRem ==
  /\ stage = "remaining"
  /\ inputRows = <<1>>
  /\ Fresh
  /\ NoSuppl
  /\ unmappedLog \in [PdbIds -> 0..MaxLog]

NextRem ==
  \/ RemStart
  \/ RemStartAbort
  \/ \E p \in PdbIds, resp \in Responses : RemStep(p, resp)
  \/ \E p \in PdbIds, resp \in Responses : RemStepTorn(p, resp)
  \/ RemFinish
  \/ RemCrash

SpecRem == InitRem /\ [][NextRem]_vars

(***************************************************************************)
(* map_pdb_to_uniprot.py, the executor: the worker threads walk through    *)
(* fetch_uniprot one HTTP exchange at a time while the main thread takes   *)
(* the finished futures.  Interruptions are left to the stage "map".       *)
(***************************************************************************)
\* the upstream hosts: rest.uniprot.org (primary), data.rcsb.org (secondary)
Hosts == {"primary", "secondary"}

\* the requests.get calls waiting for the answer of host
InFlight(host) == Cardinality({w \in Workers : pool[w].wait /\ pool[w].backend = host})

RECURSIVE Ascending(_)
\* sorted(): the members of a set of ids in ascending order
Ascending(S) ==
  IF S = {} THEN <<>>
  ELSE LET m == CHOOSE x \in S : \A y \in S : x <= y
       IN  <<m>> \o Ascending(S \ {m})

\* the variables the executor stage never touches
notPoolVars == <<annotVars, supplVars, remVars, mergeVars>>

\* lines 84-108: load, pick the unmapped ids, exit() when there are none,
\* else submit one task per id to the executor, in the order of pdb_ids
PoolStart ==
  /\ stage = "pool"
  /\ script = "none"
  /\ runs < MaxRuns
  /\ mapFileState # "torn"
  /\ runs' = runs + 1
  /\ LET d == MapLoad
     IN  IF unmapped_ids(d) = {}
         THEN /\ Forget
              /\ prev' = Ended("map", "done")
              /\ UNCHANGED <<script, queue>>
         ELSE /\ mem' = d
              /\ loaded' = d
              /\ futures' = unmapped_ids(d)
              /\ completed' = {}
              /\ flushed' = {}
              /\ script' = "pool"
              /\ queue' = Ascending(unmapped_ids(d))
              /\ UNCHANGED prev
  /\ UNCHANGED <<pool, outcome, producer, fallback>>
  /\ UNCHANGED notPoolVars
  /\ UNCHANGED <<stage, inputRows, mapFile, mapFileState, unmappedLog, nullResults, cause>>

\* an idle worker thread takes the oldest waiting task and enters
\* fetch_uniprot (line 67): first round, primary backend
PoolTake(w) ==
  /\ script = "pool"
  /\ pool[w].task = 0
  /\ queue # <<>>
  /\ pool' = [pool EXCEPT ![w] = [task |-> Head(queue), attempt |-> 1,
                                  backend |-> "primary", entity |-> 0,
                                  wait |-> FALSE, failed |-> FALSE,
                                  got |-> Null,
                                  sent |-> [primary |-> 0, secondary |-> 0]]]
  /\ queue' = Tail(queue)
  /\ UNCHANGED <<outcome, producer, fallback>>
  /\ UNCHANGED notPoolVars
  /\ UNCHANGED <<stage, inputRows, script, runs, loaded, cause, prev, mapVars>>

\* a call that goes on whatever a backend answered
ReturnedNever(uid) == FALSE

\* map_pdb_to_uniprot.py lines 71-75 and 60-61, "if uid: return uid": the
\* call returns as soon as a backend gave an accession
Returned(uid) == uid # Null

\* requests.get (lines 42 and 55): the request of the worker leaves
PoolSend(w) ==
  /\ script = "pool"
  /\ pool[w].task # 0
  /\ ~pool[w].wait
  /\ pool' = [pool EXCEPT ![w].wait = TRUE,
                          ![w].sent[pool[w].backend] = @ + 1]
  /\ UNCHANGED <<queue, outcome, producer, fallback>>
  /\ UNCHANGED notPoolVars
  /\ UNCHANGED <<stage, inputRows, script, runs, loaded, cause, prev, mapVars>>

\* the exchange of the worker ends in resp and fetch_uniprot goes on (lines
\* 43-47, 56-64, 69-77): an accession is returned at once; without one the
\* primary hands over to entity 1 of the secondary, an entity to the next
\* entity, entity 4 to the second round, and the second round returns None
PoolReceive(w, resp) ==
  /\ script = "pool"
  /\ pool[w].wait
  /\ LET me == pool[w]
         p == me.task
         uid == IF me.backend = "primary"
                THEN fetch_uniprot_from_uniprot_api(resp)
                ELSE RcsbEntity(resp)
     IN  /\ fallback' = IF me.backend = "secondary" /\ me.failed /\ resp \in Accessions
                        THEN [fallback EXCEPT ![p] = resp]
                        ELSE fallback
         /\ IF Returned(uid)
            THEN /\ outcome' = [outcome EXCEPT ![p] = uid]
                 /\ producer' = [producer EXCEPT ![p] = me.backend]
                 /\ pool' = [pool EXCEPT ![w] = IdleWorker]
            ELSE IF me.backend = "primary"
            THEN /\ pool' = [pool EXCEPT ![w] = [me EXCEPT !.backend = "secondary",
                                                           !.entity = 1,
                                                           !.wait = FALSE,
                                                           !.failed = (resp = "error"),
                                                           !.got = uid]]
                 /\ UNCHANGED <<outcome, producer>>
            ELSE IF me.entity + 1 \in RcsbEntities
            THEN /\ pool' = [pool EXCEPT ![w] = [me EXCEPT !.entity = @ + 1,
                                                           !.wait = FALSE,
                                                           !.got = uid]]
                 /\ UNCHANGED <<outcome, producer>>
            ELSE IF me.attempt + 1 \in Attempts
            THEN /\ pool' = [pool EXCEPT ![w] = [me EXCEPT !.attempt = @ + 1,
                                                           !.backend = "primary",
                                                           !.entity = 0,
                                                           !.wait = FALSE,
                                                           !.failed = FALSE,
                                                           !.got = uid]]
                 /\ UNCHANGED <<outcome, producer>>
            ELSE /\ outcome' = [outcome EXCEPT ![p] = Null]
                 /\ producer' = [producer EXCEPT ![p] = "none"]
                 /\ pool' = [pool EXCEPT ![w] = IdleWorker]
  /\ UNCHANGED queue
  /\ UNCHANGED notPoolVars
  /\ UNCHANGED <<stage, inputRows, script, runs, loaded, cause, prev, mapVars>>

\* an update that overwrites every entry of the dict
UpdateAll(d, p, v) == [q \in PdbIds |-> v]

\* line 115, pdb_to_uniprot[pdb_id] = uniprot_id: one entry of the dict
Update(d, p, v) == [d EXCEPT ![p] = v]

\* lines 110-124, one iteration of the as_completed loop on the finished
\* future of p: the dict gets its result, a null goes to the unmapped log,
\* and every SAVE_EVERY-th result saves
PoolCollect(p) ==
  /\ script = "pool"
  /\ p \in futures \ completed
  /\ outcome[p] # "pending"
  /\ LET uniprot_id == outcome[p]
         d == Update(mem, p, uniprot_id)
     IN  /\ mem' = d
         /\ completed' = completed \cup {p}
         /\ unmappedLog' = IF uniprot_id = Null
                           THEN LogAppend(unmappedLog, p)
                           ELSE unmappedLog
         /\ nullResults' = IF uniprot_id = Null
                           THEN [nullResults EXCEPT ![p] = @ + 1]
                           ELSE nullResults
         /\ IF SaveDue(Cardinality(completed) + 1)
            THEN /\ mapFile' = d
                 /\ mapFileState' = "ok"
                 /\ flushed' = completed \cup {p}
            ELSE UNCHANGED <<mapFile, mapFileState, flushed>>
  /\ UNCHANGED poolVars
  /\ UNCHANGED notPoolVars
  /\ UNCHANGED <<stage, inputRows, script, runs, futures, loaded, cause, prev>>

\* line 127, the final save, and the end of the run
PoolFinalSave ==
  /\ script = "pool"
  /\ completed = futures
  /\ mapFile' = mem
  /\ mapFileState' = "ok"
  /\ script' = "none"
  /\ prev' = Ended("map", "done")
  /\ Forget
  /\ outcome' = [p \in PdbIds |-> "pending"]
  /\ UNCHANGED <<pool, queue, producer, fallback>>
  /\ UNCHANGED notPoolVars
  /\ UNCHANGED <<stage, inputRows, unmappedLog, nullResults, runs, cause>>

InitPool ==
  /\ stage = "pool"
  /\ inputRows \in SortedRows
  /\ Fresh
  /\ NoSuppl
  /\ unmappedLog = Zero

NextPool ==
  \/ PoolStart
  \/ \E w \in Workers : PoolTake(w)
  \/ \E w \in Workers : PoolSend(w)
  \/ \E w \in Workers, resp \in Responses : PoolReceive(w, resp)
  \/ \E p \in PdbIds : PoolCollect(p)
  \/ PoolFinalSave

SpecPool == InitPool /\ [][NextPool]_vars

\* a worker thread runs whenever it can and an exchange ends (requests.get
\* has timeout=10); the main thread takes every finished future
FairPool == WF_vars(NextPool)

\* the executor of a run that nothing interrupts
SpecPoolLive == SpecPool /\ FairPool

(***************************************************************************)
(* merge_pdb_to_uniprot.py and merge_anomalies_with_disease.py: the        *)
(* annotation rows fanned out over the resolution map, then joined onto    *)
(* the feature table.                                                      *)
(***************************************************************************)
\* str.upper() on a PDB id: id 3 is the lower-case spelling of the entry
\* that id 2 spells in upper case; id 1 is in upper case
Upper(p) == IF p = 3 THEN 2 ELSE p

\* merge_pdb_to_uniprot.py lines 38-44: the ids the map sends to accession uni
uniprot_to_pdbs(d, uni) == Ascending({p \in PdbIds : d[p] = uni})

RECURSIVE MergeRecords(_, _)
\* merge_pdb_to_uniprot.py lines 46-65: for every row of the annotation file,
\* in order, one record per id of the list of its accession; a row whose
\* accession no id maps to is skipped
MergeRecords(d, rows) ==
  IF rows = <<>> THEN <<>>
  ELSE LET uni_id == Head(rows).uniprot_id
           pdb_list == uniprot_to_pdbs(d, uni_id)
       IN  [k \in 1..Len(pdb_list) |-> Row(uni_id, pdb_list[k])]
             \o MergeRecords(d, Tail(rows))

\* a row of the enriched table: the feature columns of row k of the feature
\* table (k stands for them), its id, and the annotation joined to it
MergedRow(k, p, uid) == [row |-> k, protein_id |-> p, uniprot_id |-> uid]

\* a join in which every right row matches every left row
MatchesAll(p, right) == right

\* the rows of the right table a feature row of id p joins with
Matches(p, right) == SelectSeq(right, LAMBDA r : Upper(r.pdb_id) = Upper(p))

RECURSIVE JoinFrom(_, _, _)
\* the rows the join gives for the left rows k, k+1, ...
JoinFrom(left, right, k) ==
  IF k > Len(left) THEN <<>>
  ELSE LET p == left[k]
           m == Matches(p, right)
           rows == IF m = <<>>
                   THEN <<MergedRow(k, Upper(p), Null)>>
                   ELSE [i \in 1..Len(m) |-> MergedRow(k, Upper(p), m[i].uniprot_id)]
       IN  rows \o JoinFrom(left, right, k + 1)

\* merge_anomalies_with_disease.py lines 33-47, pd.merge(how="left") on the
\* upper-cased ids: every left row once per right row it matches, and once
\* with empty annotation columns when it matches none, in the order of the
\* left rows
LeftJoin(left, right) == JoinFrom(left, right, 1)

\* the variables the merge scripts never touch
notMergeVars == <<mapVars, annotVars, supplVars, remVars, poolVars>>

\* merge_pdb_to_uniprot.py can read both its inputs (lines 30-36): the map
\* loads, and the annotation file has a header with a uniprot_id column
\* (a file written from an empty list of records has none)
MergePdbReadable ==
  /\ mapFileState = "ok"
  /\ annotFileState = "ok"
  /\ annotFile # <<>>

\* merge_pdb_to_uniprot.py, the whole script
MergePdb ==
  /\ stage = "merge"
  /\ MergePdbReadable
  /\ diseaseFile' = MergeRecords(mapFile, annotFile)
  /\ diseaseFileState' = "ok"
  /\ prev' = Ended("merge_pdb", "done")
  /\ UNCHANGED <<merged, mergedState, summary>>
  /\ UNCHANGED notMergeVars
  /\ UNCHANGED <<stage, inputRows, script, runs, loaded, cause>>

\* merge_pdb_to_uniprot.py on an input it cannot read: it raises before
\* line 73 and writes nothing
MergePdbAbort ==
  /\ stage = "merge"
  /\ ~MergePdbReadable
  /\ prev' = Ended("merge_pdb", "aborted")
  /\ UNCHANGED mergeVars
  /\ UNCHANGED notMergeVars
  /\ UNCHANGED <<stage, inputRows, script, runs, loaded, cause>>

\* n / d rounded to the nearest integer, an exact half to the even neighbour
RoundHalfEven(n, d) ==
  LET q == n \div d
      r == n % d
  IN  IF 2 * r < d THEN q
      ELSE IF 2 * r > d THEN q + 1
      ELSE IF q % 2 = 0 THEN q ELSE q + 1

\* merge_anomalies_with_disease.py lines 56 and 61: (with_disease / total) *
\* 100 as "{:.2f}" prints it, in hundredths of a percent (7000 is "70.00")
Coverage(with_disease, total) == RoundHalfEven(10000 * with_disease, total)

\* lines 54-61: the summary of the merged frame m; the diseases column of a
\* row is non-null exactly when a row of the disease mapping was joined to it
Summary(m) ==
  LET total == Len(m)
      with_disease == Cardinality({i \in DOMAIN m : m[i].uniprot_id # Null})
  IN  [total |-> total, with_disease |-> with_disease,
       coverage |-> Coverage(with_disease, total)]

\* merge_anomalies_with_disease.py can read the disease mapping (lines
\* 30-34): the file exists and has a header with a pdb_id column
MergeAnomaliesReadable ==
  /\ diseaseFileState = "ok"
  /\ diseaseFile # <<>>

\* merge_anomalies_with_disease.py, the whole script
MergeAnomalies ==
  /\ stage = "merge"
  /\ MergeAnomaliesReadable
  /\ merged' = LeftJoin(read_csv_ids(inputRows), read_csv(diseaseFile))
  /\ mergedState' = "ok"
  /\ summary' = Summary(merged')
  /\ prev' = Ended("merge_anomalies", "done")
  /\ UNCHANGED <<diseaseFile, diseaseFileState>>
  /\ UNCHANGED notMergeVars
  /\ UNCHANGED <<stage, inputRows, script, runs, loaded, cause>>

\* merge_anomalies_with_disease.py on a disease mapping it cannot read: it
\* raises before line 51 and writes nothing
MergeAnomaliesAbort ==
  /\ stage = "merge"
  /\ ~MergeAnomaliesReadable
  /\ prev' = Ended("merge_anomalies", "aborted")
  /\ UNCHANGED mergeVars
  /\ UNCHANGED notMergeVars
  /\ UNCHANGED <<stage, inputRows, script, runs, loaded, cause>>

\* fetch_disease_labels.py lines 136-167 seen from its output: one row per
\* id of S, the resolved ids whose annotation request succeeded, in the
\* order of pdb_ids
LabelsOutput(d, S) ==
  LET ids == Ascending(S)
  IN  [k \in 1..Len(ids) |-> Row(d[ids[k]], ids[k])]

\* fetch_uniprot_unmap.py lines 26-67 seen from its output: the records it
\* appends for the accessions of T, the accessions of the supplementary map
\* that had no record and whose request succeeded, in the order the set was
\* walked
UnmapOutput(T) ==
  {s \in UNION {[1..n -> {Row(a, NoPdb) : a \in T}] : n \in {Cardinality(T)}} :
     {s[k].uniprot_id : k \in DOMAIN s} = T}

\* The resolvers have completed on the feature table: every id of the table
\* is in the map, resolved or null, a null also in the unmapped log, the
\* supplementary map resolves some of the logged ids, and the annotation file
\* has the rows of the resolved ids whose request succeeded, followed by the
\* records of accessions of the supplementary map.
InitMerge ==
  /\ stage = "merge"
  /\ inputRows \in RowSeqs
  /\ Idle
  /\ NoMerge
  /\ mapFile \in [PdbIds -> Values]
  /\ supplFile \in [PdbIds -> Accessions \cup {Absent}]
  /\ \A p \in PdbIds : supplFile[p] # Absent => mapFile[p] = Null
  /\ supplFileState = (IF supplFile = EmptyMap THEN "missing" ELSE "ok")
  /\ \A p \in PdbIds : mapFile[p] = Absent <=> p \notin pdb_ids
  /\ mapFileState = "ok"
  /\ unmappedLog = [p \in PdbIds |-> IF mapFile[p] = Null THEN 1 ELSE 0]
  /\ cacheFile = mapFile
  /\ cacheFileState = "ok"
  /\ \E S \in SUBSET {p \in pdb_ids : mapFile[p] \in Accessions} :
       partialFile = LabelsOutput(mapFile, S)
  /\ \E T \in SUBSET ({supplFile[p] : p \in PdbIds} \cap Accessions) :
       \E s \in UnmapOutput(T \ {r.uniprot_id : r \in Range(partialFile)}) :
         annotFile = partialFile \o s
  /\ annotFileState = "ok"

NextMerge ==
  \/ MergePdb
  \/ MergePdbAbort
  \/ MergeAnomalies
  \/ MergeAnomaliesAbort

SpecMerge == InitMerge /\ [][NextMerge]_vars

(***************************************************************************)
(* The three resolvers, each over its own checkpoint.                      *)
(***************************************************************************)
Init == InitMap \/ InitAnnot \/ InitRem

Next == NextMap \/ NextAnnot \/ NextRem

Spec == Init /\ [][Next]_vars

(***************************************************************************)
(* Properties of the parallel resolver.                                    *)
(***************************************************************************)
\* the resolution file holds the accession c for p
MapHolds(p, c) == mapFileState = "ok" /\ mapFile[p] = c

\* C1 (as stated): monotonicity of resolution.  Once pdb_to_uniprot.json
\* holds an accession for a source id, every later durable snapshot of the
\* file, after complete and interrupted runs alike, holds the same accession.
C1_Monotone ==
  [][\A p \in PdbIds : \A c \in Accessions :
       MapHolds(p, c) => (mapFileState' = "ok" /\ mapFile'[p] = c)]_vars

C9_BoundedLoss ==
  (script = "none" /\ prev.end \in {"crash", "torn"}) =>
    /\ mapFileState # "torn"
    /\ Cardinality(prev.unsaved) < SAVE_EVERY

\* C10 (as stated): a lookup that every backend answered with a definitive
\* "no mapping" and a lookup in which every exchange failed never leave the
\* same recorded outcome.
C10_Distinguished ==
  \A p \in PdbIds, q \in PdbIds :
    ( /\ cause[p] = "allNone"
      /\ cause[q] = "allError"
      /\ mapFileState = "ok"
      /\ mapFile[p] # Absent
      /\ mapFile[q] # Absent ) => mapFile[p] # mapFile[q]

\* C10 (amended): both cases are recorded as the same null (nothing else is
\* kept).  map_pdb_to_uniprot submits both kinds of id again in its next
\* run; fetch_disease_labels caches the null and resolves neither again.
C10_BothNullBothRetried ==
  \A p \in PdbIds :
    cause[p] \in {"allNone", "allError"} =>
      /\ (script = "map" /\ p \in completed) => mem[p] = Null
      /\ mapFileState = "ok" => mapFile[p] \in {Null, Absent}
      /\ (script = "map" /\ p \in pdb_ids /\ p \notin completed) => p \in futures
      /\ cacheFileState = "ok" => cacheFile[p] = IF stage = "annot" THEN Null ELSE Absent
      /\ (script = "labels" /\ loaded[p] = Null) => p \notin resolveReqs

\* C10 witness: a run that follows one in which p ended in "no mapping"
\* everywhere and q in errors everywhere; both are null in the file and
\* both are submitted again.
C10_Witness ==
  \E p \in PdbIds, q \in PdbIds :
    /\ cause[p] = "allNone"
    /\ cause[q] = "allError"
    /\ MapHolds(p, Null)
    /\ MapHolds(q, Null)
    /\ script = "map"
    /\ completed = {}
    /\ {p, q} \subseteq futures

(***************************************************************************)
(* Properties of the annotation file.                                      *)
(***************************************************************************)
\* the accessions uniprot_disease_labels_final.csv holds a record for
Annotated == {r.uniprot_id : r \in Range(annotFile)}

\* C8 (as stated): no flush loses a successful result.  Whatever script
\* writes the annotation file, an accession the file had a record for still
\* has one after the write.
C8_NoRecordLost ==
  [][\A a \in Accessions : a \in Annotated => a \in Annotated']_vars

(***************************************************************************)
(* Properties of the three resolvers.                                      *)
(***************************************************************************)
\* the durable files
files == <<mapFile, mapFileState, unmappedLog, cacheFile, cacheFileState,
           partialFile, annotFile, annotFileState, supplFile, supplFileState>>

\* the running script is the one whose previous run completed
SecondRun(who) == script = who /\ prev = Ended(who, "done")

\* C2 (as stated): idempotence.  A run that follows a completed run of the
\* same script on the same input and files issues no request at all,
\* whatever the first run left unresolved or un-annotated.
C2_SecondRunSilent ==
  /\ SecondRun("map") => futures = {}
  /\ SecondRun("labels") => (resolveReqs = {} /\ annotReqs = {})
  /\ SecondRun("remaining") => remReqs = Zero

\* the running script who found nothing to retry when it loaded its files
NothingLeft(who) ==
  IF who = "labels"
  THEN \A p \in pdb_ids : p \in done_pdbs \/ loaded[p] = Null
  ELSE \A p \in PdbIds : unmappedLog[p] > 0 => loaded[p] # Absent

\* C2 (amended): a run that follows a completed run of the same script
\* repeats exactly the requests for what that run left behind: the ids left
\* null (map_pdb_to_uniprot), the annotation of the ids resolved but without
\* annotation (fetch_disease_labels, which sends no resolution request), the
\* ids of the log still absent from the supplementary map (map_remaining_pdb).
\* When nothing is left, it sends no request and changes no file.
C2_SecondRunInv ==
  /\ SecondRun("map") =>
       /\ futures = {p \in pdb_ids : loaded[p] = Null}
       /\ \A p \in pdb_ids : loaded[p] # Absent
  /\ SecondRun("labels") =>
       /\ resolveReqs = {}
       /\ \A r \in annotReqs :
            /\ r[1] \in pdb_ids \ done_pdbs
            /\ r[2] = loaded[r[1]]
            /\ r[2] \in Accessions
  /\ SecondRun("remaining") =>
       \A p \in PdbIds : remReqs[p] > 0 => (loaded[p] = Absent /\ unmappedLog[p] > 0)

\* C2 (amended), in full: the requests of a second run are those retries at
\* every moment, and a second run with nothing left to retry, as well as any
\* run of map_pdb_to_uniprot after one that resolved every id, changes no file.
C2_SecondRunRetriesOnly ==
  /\ []C2_SecondRunInv
  /\ [][/\ \A who \in {"labels", "remaining"} :
            (SecondRun(who) /\ NothingLeft(who)) => UNCHANGED files
        /\ ( /\ stage = "map"
             /\ script = "none"
             /\ prev = Ended("map", "done")
             /\ \A p \in pdb_ids : \E c \in Accessions : MapHolds(p, c) )
           => (UNCHANGED files /\ script' = "none")]_vars

\* C2 witness: a second run of the parallel resolver that repeats the lookup
\* of an id the first run left null and skips one it resolved.
C2_Witness ==
  /\ SecondRun("map")
  /\ futures # {}
  /\ \E p \in pdb_ids : loaded[p] \in Accessions

\* C5: cache-first resolution.  In every run, an id whose accession is in the
\* checkpoint as loaded gets no resolution request, and the stored accession
\* is the one kept, written back and used for the annotation request.
C5_CacheFirst ==
  \A p \in PdbIds :
    loaded[p] \in Accessions =>
      /\ script = "map" =>
           /\ p \notin futures
           /\ mem[p] = loaded[p]
           /\ MapHolds(p, loaded[p])
      /\ script = "labels" =>
           /\ p \notin resolveReqs
           /\ cache[p] = loaded[p]
           /\ \A r \in annotReqs : r[1] = p => r[2] = loaded[p]
      /\ script = "remaining" =>
           /\ remReqs[p] = 0
           /\ supp[p] = loaded[p]

\* C5 witness: the sequential resolver has sent the annotation request of an
\* id with the accession its cache held at load, and no resolution request.
C5_Witness ==
  \E p \in PdbIds :
    /\ script = "labels"
    /\ loaded[p] \in Accessions
    /\ <<p, loaded[p]>> \in annotReqs
    /\ p \notin resolveReqs

(***************************************************************************)
(* Properties of the merge.                                                *)
(***************************************************************************)
\* C4 (as stated): join completeness.  The enriched table has exactly as
\* many rows as the feature table: no feature row is dropped and none is
\* repeated, whatever the map and the annotation file hold.
C4_JoinComplete ==
  mergedState = "ok" => Len(merged) = Len(inputRows)

(***************************************************************************)
(* Properties of the executor.                                             *)
(***************************************************************************)
\* C6 (as stated): fallback with provenance.  The record kept for an id that
\* the secondary backend resolved after the primary had failed names the
\* secondary backend: it differs from the record of an id the primary
\* resolved.
C6_ProvenanceRecorded ==
  \A p \in PdbIds, q \in PdbIds :
    ( /\ script = "pool"
      /\ {p, q} \subseteq completed
      /\ fallback[p] # "no"
      /\ producer[p] = "secondary"
      /\ producer[q] = "primary" ) => mem[p] # mem[q]

\* C6 (amended): when the primary backend ended in a fetch error and the
\* secondary answered the accession c, fetch_uniprot returns c, and c alone
\* is what the dict and the file keep for the id: a record is an accession
\* or null and names no backend.
C6_FallbackValueOnly ==
  /\ \A p \in PdbIds :
       fallback[p] # "no" =>
         /\ (script = "pool" /\ p \in futures) => outcome[p] = fallback[p]
         /\ (script = "pool" /\ p \in completed) => mem[p] = fallback[p]
         /\ (script = "none" \/ p \in flushed) => MapHolds(p, fallback[p])
  /\ \A p \in PdbIds : mem[p] \in Values /\ mapFile[p] \in Values

\* C6 witness: the file holds the same accession for an id resolved by the
\* secondary backend after a failure of the primary and for an id resolved
\* by the primary.
C6_Witness ==
  \E p \in PdbIds, q \in PdbIds :
    /\ fallback[p] # "no"
    /\ producer[p] = "secondary"
    /\ producer[q] = "primary"
    /\ MapHolds(p, fallback[p])
    /\ MapHolds(q, fallback[p])

\* C7: rate-limit respect.  With MAX_THREADS worker threads, at no moment of
\* a run are more than MAX_THREADS requests in flight to one upstream host.
C7_InFlightBounded ==
  \A host \in Hosts : InFlight(host) <= MAX_THREADS

\* C7 witness: MAX_THREADS requests are in flight to the primary host while
\* a submitted id still waits for a worker.
C7_Witness ==
  /\ InFlight("primary") = MAX_THREADS
  /\ queue # <<>>

C12_FlushOnInterrupt ==
  (script = "none" /\ prev.who = "map" /\ prev.end = "crash") =>
    /\ mapFileState = "ok"
    /\ \A p \in prev.unsaved : mapFile[p] \in Accessions
    /\ \A p \in prev.nulls : mapFile[p] = Null

(***************************************************************************)
(* Properties of the partial results of fetch_disease_labels.              *)
(***************************************************************************)
\* C13 (as stated): completed identifiers are skipped on restart.  For an id
\* with a row in fetched_records.csv no step of any run sends a resolution
\* or an annotation request, every step keeps the row in the file, and a
\* step that writes the final output writes the row into it.
C13_CompletedSkipped ==
  [][\A r \in Range(partialFile) :
       r.pdb_id \in PdbIds =>
         /\ r \in Range(partialFile')
         /\ r.pdb_id \notin resolveReqs' \ resolveReqs
         /\ \A x \in annotReqs' \ annotReqs : x[1] # r.pdb_id
         /\ annotFile' # annotFile => r \in Range(annotFile')]_vars

C15_NotFoundNotRetried ==
  /\ \A x \in annotReqs : notFound[x[2]] \in {0, runs}
  /\ \A p \in PdbIds :
       (script = "map" /\ cause[p] = "allNone" /\ loaded[p] = Null) => p \notin futures

\* what a "not found" leaves: in a later run the accession is requested like
\* any other, and a definitive "no mapping" is a null like any other
C15_RetriedInv ==
  /\ script = "labels" =>
       \A p \in visited \ done_pdbs :
         (cache[p] \in Accessions /\ notFound[cache[p]] # 0) =>
           <<p, cache[p]>> \in annotReqs
  /\ script = "unmap" =>
       \A a \in uniprot_ids \ todo :
         (a \notin fetched_ids /\ notFound[a] # 0) => <<NoPdb, a>> \in annotReqs
  /\ \A p \in PdbIds :
       cause[p] = "allNone" =>
         /\ (script = "map" /\ loaded[p] = Null /\ p \in pdb_ids) => p \in futures
         /\ (script = "labels" /\ loaded[p] = Null) => p \notin resolveReqs

\* C15 (amended): a "not found" of the annotation endpoint is recorded
\* nowhere: the step that receives it changes neither the partial results nor
\* the annotation file, and later runs request the accession again.  A
\* definitive "no mapping" of a source id is recorded as null:
\* map_pdb_to_uniprot looks the id up again in its next run,
\* fetch_disease_labels does not resolve it again.
C15_NotFoundUnrecorded ==
  /\ []C15_RetriedInv
  /\ [][notFound' # notFound =>
          UNCHANGED <<partialFile, annotFile, annotFileState>>]_vars

\* C15 witness: a run requests the annotation of an accession for which an
\* earlier run was answered "not found".
C15_Witness ==
  \E x \in annotReqs :
    /\ notFound[x[2]] # 0
    /\ notFound[x[2]] < runs

(***************************************************************************)
(* Properties of loading a checkpoint.                                     *)
(***************************************************************************)
\* C16 (as stated): corrupt checkpoint tolerance.  Loading a checkpoint that
\* a crash cut off inside a write never aborts the run: no run of
\* map_pdb_to_uniprot ends at its load.
C16_LoadNeverAborts ==
  ~(prev.who = "map" /\ prev.end = "aborted")

(***************************************************************************)
(* Properties of the enriched table.                                       *)
(***************************************************************************)
\* the rows of the enriched table that come from row k of the feature table
RowsOf(k) == {i \in DOMAIN merged : merged[i].row = k}

\* the enriched table keeps the order of the feature table
InFeatureOrder ==
  \A i \in DOMAIN merged, j \in DOMAIN merged :
    i < j => merged[i].row <= merged[j].row

\* row k of the feature table is there once, with empty annotation columns
OnceAndNull(k) ==
  /\ Cardinality(RowsOf(k)) = 1
  /\ \A i \in RowsOf(k) : merged[i].uniprot_id = Null

\* the source id p is resolved and its accession has an annotation record
HasAnnotation(p) == mapFile[p] \in Accessions /\ mapFile[p] \in Annotated

ResolvedId(p) ==
  IF mapFile[p] \in Accessions THEN mapFile[p]
  ELSE IF supplFileState = "ok" THEN supplFile[p] ELSE Absent

\* C18 (as stated): annotation is attached whenever it exists.  Every
\* feature row whose source id has an accession in pdb_to_uniprot.json or in
\* the supplementary map, the accession having a record in the annotation
\* file, is written to the enriched table with that record.
C18_AnnotationAttached ==
  mergedState = "ok" =>
    \A k \in DOMAIN inputRows :
      LET c == ResolvedId(inputRows[k])
      IN  (c \in Accessions /\ c \in Annotated) =>
            \E i \in RowsOf(k) : merged[i].uniprot_id = c

\* the rows of the feature table written with an annotation
AnnotatedRows ==
  {k \in DOMAIN inputRows : \E i \in RowsOf(k) : merged[i].uniprot_id # Null}

\* C19 (as stated): coverage computation.  The coverage the merge reports is
\* 100 times the number of feature rows with an annotation attached divided
\* by the number of feature rows, with two decimals (here in hundredths of
\* a percent).
C19_CoverageOfInputRows ==
  mergedState = "ok" =>
    summary.coverage = RoundHalfEven(10000 * Cardinality(AnnotatedRows), Len(inputRows))

(***************************************************************************)
(* Properties of the lookups of one run.                                   *)
(***************************************************************************)
\* C20 (as stated): input deduplication.  When the list of ids a resolver
\* reads repeats an id, the resolver looks the id up at most once in a run;
\* for map_remaining_pdb.py the list is the unmapped log.
C20_LookedUpOncePerRun ==
  \A p \in PdbIds : remReqs[p] <= 1

(***************************************************************************)
(* Properties of one call of fetch_uniprot in a worker thread.             *)
(***************************************************************************)
\* a worker that is inside fetch_uniprot has received no accession so far,
\* and its call has not returned
NoRequestAfterAccession ==
  \A w \in Workers :
    pool[w].task # 0 => pool[w].got = Null /\ outcome[pool[w].task] = "pending"

\* a call starts with the primary backend in round 1, moves to the secondary
\* only from a primary exchange of the same round that has ended, and starts
\* a new round with the primary
PrimaryThenSecondary ==
  \A w \in Workers :
    LET a == pool[w]
        b == pool'[w]
    IN  /\ (a.task = 0 /\ b.task # 0) => (b.backend = "primary" /\ b.attempt = 1)
        /\ (b.backend = "secondary" /\ a.backend # "secondary") =>
             (a.backend = "primary" /\ a.wait /\ a.task = b.task /\ a.attempt = b.attempt)
        /\ (a.task # 0 /\ b.task # 0 /\ a.attempt # b.attempt) =>
             (a.backend = "secondary" /\ b.backend = "primary")

\* C21: ordered backends, stop at the first success.  In one call of
\* fetch_uniprot the primary backend is asked first in each round, the
\* secondary only after the primary exchange of that round ended without an
\* accession, and no request leaves once a backend has answered an accession.
C21_OrderedStopAtFirst ==
  /\ []NoRequestAfterAccession
  /\ [][PrimaryThenSecondary]_vars

\* C21 witness: a call is in its second round and waits for the secondary
\* backend, while another call has returned the accession of the primary.
C21_Witness ==
  /\ \E w \in Workers :
       pool[w].attempt = 2 /\ pool[w].backend = "secondary" /\ pool[w].wait
  /\ \E p \in PdbIds : producer[p] = "primary" /\ outcome[p] \in Accessions

(***************************************************************************)
(* Properties of the dict and its saves under the executor.                *)
(***************************************************************************)
\* the entries of the dict a step changes
Updated == {p \in PdbIds : mem'[p] # mem[p]}

\* while the executor runs a step updates at most one entry of the dict
OneUpdateAtATime ==
  (script = "pool" /\ script' = "pool") => Cardinality(Updated) <= 1

\* a step of a worker thread neither updates the dict nor writes the file
WorkersLeaveDict ==
  pool' # pool => UNCHANGED <<mem, mapFile, mapFileState>>

\* a save writes for every id the value loaded at the start of the run or
\* the result of its finished future
SnapshotConsistent ==
  (script = "pool" /\ <<mapFile, mapFileState>>' # <<mapFile, mapFileState>>) =>
    /\ mapFileState' = "ok"
    /\ \A p \in PdbIds :
         \/ mapFile'[p] = loaded[p]
         \/ outcome[p] # "pending" /\ mapFile'[p] = outcome[p]

\* C22: serialized checkpoint mutation and consistent flush.  With the
\* worker threads completing lookups in any interleaving, the dict is
\* updated one entry at a time and only by the main thread, no save runs
\* during an update, and every saved snapshot holds for each id the value
\* it had before the run or its complete outcome.
C22_SerializedConsistent ==
  [][OneUpdateAtATime /\ WorkersLeaveDict /\ SnapshotConsistent]_vars

\* C22 witness: a periodic save has written results of this run while a
\* worker thread is still waiting for an answer.
C22_Witness ==
  /\ script = "pool"
  /\ flushed # {}
  /\ mapFile # loaded
  /\ \E w \in Workers : pool[w].wait

(***************************************************************************)
(* Properties of the records of the annotation file.                       *)
(***************************************************************************)
\* C23 (as stated): annotation records are keyed uniquely by canonical id.
\* After any runs of fetch_disease_labels.py and fetch_uniprot_unmap.py the
\* annotation file holds at most one record per accession, also when
\* several source ids map to one accession.
C23_UniqueByAccession ==
  annotFileState = "ok" =>
    \A i \in DOMAIN annotFile, j \in DOMAIN annotFile :
      annotFile[i].uniprot_id = annotFile[j].uniprot_id => i = j

(***************************************************************************)
(* Properties of the merged PDB-UniProt-disease table.                     *)
(***************************************************************************)
\* the records of pdb_uniprot_disease_final.csv for the source id p
RecordsOf(p) == {i \in DOMAIN diseaseFile : diseaseFile[i].pdb_id = p}

\* C24 (as stated): many-to-one fan-out.  The merged table holds exactly one
\* record, with its annotation, for every source id whose accession is
\* non-null and annotated, and no record for another source id.
C24_OneRecordPerSourceId ==
  diseaseFileState = "ok" =>
    \A p \in PdbIds :
      IF HasAnnotation(p)
      THEN /\ Cardinality(RecordsOf(p)) = 1
           /\ \A i \in RecordsOf(p) : diseaseFile[i].uniprot_id = mapFile[p]
      ELSE RecordsOf(p) = {}

(***************************************************************************)
(* Properties of records without diseases.                                 *)
(***************************************************************************)
\* the stored records whose disease list is empty
EmptyRecords(rows) == {r \in Range(rows) : Diseases(r.uniprot_id) = <<>>}

\* C25 (as stated): an annotation payload with zero disease comments is a
\* stored result.  A 200 answer gives a record with an empty disease list,
\* the record is written to the partial results like any other, and no step
\* of a later run sends an annotation request for an id that has such a
\* record, nor drops the record.
C25_EmptyListIsDone ==
  /\ \A a \in Accessions : fetch_uniprot_disease(a, "ok") = Row(a, NoPdb)
  /\ [][\A r \in EmptyRecords(partialFile) :
          r.pdb_id \in PdbIds =>
            /\ r \in Range(partialFile')
            /\ \A x \in annotReqs' \ annotReqs : x[1] # r.pdb_id]_vars

(***************************************************************************)
(* Properties of the resolution cache of fetch_disease_labels.             *)
(***************************************************************************)
\* a step leaves alone the ids uniprot_cache.json has an entry for: it sends
\* no resolution request for them and, when it writes the file, writes their
\* entries as they were
CacheEntriesKept ==
  \A p \in PdbIds :
    (cacheFileState = "ok" /\ cacheFile[p] # Absent) =>
      /\ p \notin resolveReqs' \ resolveReqs
      /\ cacheFileState' = "ok" => cacheFile'[p] = cacheFile[p]

OthersAsLoaded ==
  script = "map" =>
    \A q \in PdbIds \ futures :
      /\ mem[q] = loaded[q]
      /\ mapFileState = "ok" => mapFile[q] = loaded[q]

\* a save of a running resolver writes the loaded entry of every id that was
\* not pending at startup, and a step changes the dict at a pending id only
OthersWrittenBack ==
  script = "map" =>
    /\ \A q \in PdbIds \ futures :
         mapFileState' = "ok" => mapFile'[q] = loaded[q]
    /\ script' = "map" => \A q \in PdbIds : mem'[q] # mem[q] => q \in futures

\* C27: frame of a resolver run.  A run of map_pdb_to_uniprot.py changes
\* only the entries of the ids that were pending at startup; every other
\* entry of the loaded map, entries of ids that are not in the feature
\* table included, is written back unchanged by every save that the run
\* completes.
C27_FrameKept ==
  /\ []OthersAsLoaded
  /\ [][OthersWrittenBack]_vars

\* C27 witness: a run that looked up an id has completed its final save, and
\* the file keeps the accession of an id that is not in the feature table and
\* the accession of an id of the table that was resolved before the run.
C27_Witness ==
  /\ prev = Ended("map", "done")
  /\ mapFileState = "ok"
  /\ \E p \in pdb_ids : cause[p] = "found" /\ mapFile[p] \in Accessions
  /\ \E q \in PdbIds \ pdb_ids : mapFile[q] \in Accessions
  /\ \E q \in pdb_ids : cause[q] = "never" /\ mapFile[q] \in Accessions

(***************************************************************************)
(* Properties of the completion of a run that nothing interrupts.          *)
(***************************************************************************)
\* a call of fetch_uniprot has sent at most one request to the primary
\* backend per round and at most one per entity and round to the secondary
RequestsBounded ==
  \A w \in Workers :
    /\ pool[w].sent.primary <= 2
    /\ pool[w].sent.secondary <= 8

\* the run is over and the saved map has an accession or null for every id
\* of the feature table
RunComplete ==
  /\ script = "none"
  /\ prev = Ended("map", "done")
  /\ mapFileState = "ok"
  /\ \A p \in pdb_ids : mapFile[p] \in Accessions \cup {Null}

\* C28: completion of an uninterrupted resolver run.  Every submitted lookup
\* ends after at most two rounds, with at most 2 requests to the primary and
\* at most 8 to the secondary backend, whatever the backends answer, so the
\* run reaches its final save, and the saved map then has an entry for every
\* distinct id of the feature table.
C28_RunCompletes ==
  /\ []RequestsBounded
  /\ (script = "pool") ~> RunComplete

\* C28 witness: a lookup that met an exception in every exchange has sent
\* its 2 requests to the primary and its 8 to the secondary backend and is
\* waiting for the last answer.
C28_Witness ==
  \E w \in Workers :
    /\ pool[w].wait
    /\ pool[w].sent.primary = 2
    /\ pool[w].sent.secondary = 8

(***************************************************************************)
(* Properties of the unmapped log.                                         *)
(***************************************************************************)
\* the log has one line per result taken as null
LogCountsNulls == \A p \in PdbIds : unmappedLog[p] = nullResults[p]

\* no step removes a line of the log
LogAppendOnly == \A p \in PdbIds : unmappedLog'[p] >= unmappedLog[p]

\* C29: the unmapped log is append-only and counts null outcomes.  Across
\* the runs of map_pdb_to_uniprot.py the lines of unmapped_pdbs.txt naming an
\* id are as many as the completed lookups of the id that returned null, and
\* no line is ever removed: an id resolved by a later run stays in the log.
C29_LogCountsAndKeeps ==
  /\ []LogCountsNulls
  /\ [][LogAppendOnly]_vars

\* C29 witness: the map holds an accession for an id that an earlier run
\* logged as unmapped, and the log holds two lines for another id.
C29_Witness ==
  /\ \E p \in PdbIds : MapHolds(p, "P1") /\ unmappedLog[p] = 1
  /\ \E q \in PdbIds : unmappedLog[q] = 2

(***************************************************************************)
(* Properties of the supplementary map.                                    *)
(***************************************************************************)
\* neither the dict of map_remaining_pdb.py nor its file maps an id to null,
\* and a run has every logged id that its loaded map lacks on its list
NoNullAndAbsentRetried ==
  \A p \in PdbIds :
    /\ supp[p] # Null
    /\ supplFile[p] # Null
    /\ (script = "remaining" /\ loaded[p] = Absent /\ unmappedLog[p] > 0) =>
         to_process[p] + remReqs[p] > 0

\* a step looks up no id that pdb_to_uniprot_supplement.json has an accession
\* for, and a save keeps the accession
PresentLeftAlone ==
  \A p \in PdbIds :
    (supplFileState = "ok" /\ supplFile[p] \in Accessions) =>
      /\ remReqs'[p] <= remReqs[p]
      /\ supplFileState' = "ok" => supplFile'[p] = supplFile[p]

\* C30 (as stated): the supplementary map stores successes only.  The file
\* never maps an id to null; an id whose lookup failed or found no UniProt
\* reference is absent and is looked up again by every later run; an id
\* present in the map is never looked up again and keeps its value.
C30_SuccessesOnlyAndKept ==
  /\ []NoNullAndAbsentRetried
  /\ [][PresentLeftAlone]_vars

====
